---- MODULE Spec2Model ----
(***************************************************************************)
(* A model of blinx's maximum-likelihood estimation core:                  *)
(*   src/blinx/parameter_ranges.py  Range, ParameterRanges                 *)
(*   src/blinx/estimate.py          estimate_y, estimate_parameters,       *)
(*                                  get_initial_parameter_guesses, is_done *)
(*   src/promap/fit.py              optimize_params                        *)
(*                                                                         *)
(* Numbers are exact: a linspace value is a rational <<num, den>>, a       *)
(* log-likelihood is an integer, is_done_limit is a rational <<num, den>>. *)
(* The likelihood engine, the optimizer step and find_local_maxima live in *)
(* modules that are not part of src/ (trace_model, optimizer, utils); the  *)
(* engine and the step are deterministic but otherwise unknown functions,  *)
(* so stepped parameters are kept as terms (start point, traces stepped    *)
(* with) and the values of the engine are chosen when first evaluated.     *)
(***************************************************************************)
EXTENDS Integers, Sequences, FiniteSets, TLC

VARIABLES
    pc,                       \* position in estimate_parameters
    error,                    \* the exception that ended the call, or "none"
    traces,                   \* tensor (n, t): a sequence of traces
    y,                        \* the y of the running estimate_parameters call
    parameter_ranges,         \* the ParameterRanges object
    hyper_parameters,         \* the HyperParameters object (shared, mutable)
    engine,                   \* the likelihood surface over the grid
    min_indices,              \* per trace, what find_local_maxima returned
    selected_ll,              \* per trace, the grid likelihoods at min_indices
    parameters,               \* (n, g) parameters
    optimizer_states,         \* (n, g) optimizer states
    log_likelihoods,          \* (n, g) values of the last optimizer step
    log_likelihoods_history,  \* deque(maxlen = is_done_window)
    i,                        \* optimizer steps done in the refinement loop
    best_parameters,          \* returned by estimate_parameters
    best_log_likelihoods,     \* returned by estimate_parameters
    ypc,                      \* position in estimate_y
    max_y,                    \* argument of estimate_y
    all_parameters,           \* estimate_y's table of parameters
    all_log_likelihoods,      \* estimate_y's table of log-likelihoods
    max_likelihood_y,         \* what find_most_likely_y returned
    est_calls,                \* log of the estimate_parameters calls of this estimate_y
    caller_max_x,             \* the max_x the caller set for this call, or None
    hp_owner,                 \* who made the HyperParameters object: "caller" or "estimate_y"
    calls,                    \* estimate_y calls made so far
    work_done,                \* a likelihood evaluation or optimizer step happened in this call
    done_result,              \* result of a direct is_done call
    fit_pc,                   \* position in optimize_params
    likelihood,               \* optimize_params: value of the last evaluation
    old_likelihood,           \* optimize_params: value of the evaluation before
    diff                      \* optimize_params: |likelihood - old_likelihood|

inVars    == <<traces, y, parameter_ranges, hyper_parameters>>
guessVars == <<engine, min_indices, selected_ll>>
loopVars  == <<parameters, optimizer_states, log_likelihoods, log_likelihoods_history, i>>
bestVars  == <<best_parameters, best_log_likelihoods>>
yVars     == <<ypc, max_y, all_parameters, all_log_likelihoods, max_likelihood_y,
               est_calls, caller_max_x, hp_owner, calls>>
fitVars   == <<fit_pc, likelihood, old_likelihood, diff>>
vars      == <<pc, error, inVars, guessVars, loopVars, bestVars, yVars, work_done,
               done_result, fitVars>>

\* Python's None is the empty tuple, and a value x that may be None is <<x>>
None == <<>>

Some(x) == <<x>>

NaN  == "NaN"

-----------------------------------------------------------------------------
(* Bounds of the model. *)

MaxSteps == 3          \* largest number of grid values per parameter
MaxEpochLength == 3    \* largest hyper_parameters.epoch_length
MaxWindow == 2         \* largest hyper_parameters.is_done_window
MaxY == 2              \* largest max_y
MaxCalls == 2          \* estimate_y calls in one run

-----------------------------------------------------------------------------
(* Arithmetic helpers. *)

Abs(x) == IF x < 0 THEN -x ELSE x

Min2(a, b) == IF a < b THEN a ELSE b

RECURSIVE SumSeq(_)
SumSeq(s) == IF s = <<>> THEN 0 ELSE Head(s) + SumSeq(Tail(s))

RECURSIVE ProdSeq(_)
ProdSeq(s) == IF s = <<>> THEN 1 ELSE Head(s) * ProdSeq(Tail(s))

\* traces.max(): the largest intensity of any trace
TracesMax(ts) ==
    LET all == UNION {{ts[t][k] : k \in 1..Len(ts[t])} : t \in 1..Len(ts)}
    IN  CHOOSE m \in all : \A x \in all : x <= m

\* a < b for rationals <<num, den>> with den > 0
RatLess(a, b) == a[1] * b[2] < b[1] * a[2]

RatLeq(a, b) == a[1] * b[2] <= b[1] * a[2]

\* a sequence given by a rule, stored as data (evaluated once, here)
Array(s) == s \o <<>>

-----------------------------------------------------------------------------
(* parameter_ranges.py: Range and ParameterRanges.  Range values are in    *)
(* units of 1e-4, so that the defaults 1e-4 and 1.0 are integers.          *)

ParamNames == <<"r_e", "r_bg", "mu_ro", "sigma_ro", "gain", "p_on", "p_off">>

NumParams == Len(ParamNames)

P_ON_IDX == 6
P_OFF_IDX == 7

DefaultPStart == 1        \* 1e-4
DefaultPStop == 10000     \* 1.0

\* Range.__init__: stores its arguments, checks nothing
Range(start, stop, step) == [start |-> start, stop |-> stop, step |-> step]

\* lines 85-92: x if x is not None, else the default
OrDefault(x, default) == IF x = None THEN default ELSE x[1]

\* ParameterRanges.__init__(ranges, steps): ranges[d] = <<start, stop>>, each
\* Some(value) or, for p_on and p_off, None; a None start or stop of p_on / p_off
\* is replaced by its default; nothing is checked
ParameterRangesInit(ranges, steps) ==
    [d \in 1..NumParams |->
        IF d \in {P_ON_IDX, P_OFF_IDX}
        THEN Range(OrDefault(ranges[d][1], DefaultPStart),
                   OrDefault(ranges[d][2], DefaultPStop), steps[d])
        ELSE Range(ranges[d][1][1], ranges[d][2][1], steps[d])]

\* ParameterRanges.num_values
NumValues(pr) == Array([d \in 1..NumParams |-> pr[d].step])

\* jnp.linspace(start, stop, num) for num >= 0: num evenly spaced rationals,
\* [start] alone when num = 1 (a negative num raises ValueError, see ToParametersRaises)
Linspace(start, stop, num) ==
    Array([k \in 1..num |->
        IF num = 1 THEN <<start, 1>>
        ELSE <<start * (num - 1) + (k - 1) * (stop - start), num - 1>>])

\* Range.to_tensor
ToTensor(r) == Linspace(r.start, r.stop, r.step)

\* jnp.linspace raises ValueError for a negative number of samples
ToParametersRaises(pr) == \E d \in 1..NumParams : pr[d].step < 0

\* C-order (row-major) stride of axis d of an array of the given shape
Stride(shape, d) == ProdSeq(SubSeq(shape, d + 1, Len(shape)))

ArraySize(shape) == ProdSeq(shape)

\* numpy.unravel_index: the multi-index (0-based) of 0-based flat index k
Unravel(k, shape) ==
    Array([d \in 1..Len(shape) |-> (k \div Stride(shape, d)) % shape[d]])

\* numpy.ravel_multi_index: the 0-based flat index of multi-index m
Ravel(m, shape) == SumSeq([d \in 1..Len(shape) |-> m[d] * Stride(shape, d)])

\* jnp.meshgrid(*tensors, indexing="xy")[d]: the first two axes are swapped
MeshgridXY(tensors, d) ==
    LET n     == [e \in 1..Len(tensors) |-> Len(tensors[e])]
        shape == [e \in 1..Len(tensors) |->
                    IF e = 1 THEN n[2] ELSE IF e = 2 THEN n[1] ELSE n[e]]
        axis  == IF d = 1 THEN 2 ELSE IF d = 2 THEN 1 ELSE d
    IN  [shape |-> shape,
         data  |-> Array([k \in 1..ArraySize(shape) |->
                        tensors[d][Unravel(k - 1, shape)[axis] + 1]])]

\* jnp.meshgrid(*tensors, indexing="ij")[d]: an array of shape (n1, ..., nK) whose
\* entry at multi-index m is tensors[d][m[d]]; arrays are [shape, C-order data]
Meshgrid(tensors, d) ==
    LET shape == [e \in 1..Len(tensors) |-> Len(tensors[e])]
    IN  [shape |-> shape,
         data  |-> Array([k \in 1..ArraySize(shape) |->
                        tensors[d][Unravel(k - 1, shape)[d] + 1]])]

\* array.flatten()
Flatten(arr) == arr.data

\* flat.reshape(shape)
Reshape(flat, shape) == [shape |-> shape, data |-> flat]

\* arr[m] for a multi-index m
Index(arr, m) == arr.data[Ravel(m, arr.shape) + 1]

\* ParameterRanges.to_parameters: per parameter, the flattened 'ij' meshgrid
ToParameters(pr) ==
    LET tensors == Array([d \in 1..NumParams |-> ToTensor(pr[d])])
    IN  Array([d \in 1..NumParams |-> Flatten(Meshgrid(tensors, d))])

\* the parameter vector at (1-based) position k of the flat grid
VectorAt(params, k) == Array([d \in 1..NumParams |-> params[d][k]])

GridVectors(pr) ==
    LET params == ToParameters(pr)
    IN  {VectorAt(params, k) : k \in 1..ArraySize(NumValues(pr))}

-----------------------------------------------------------------------------
(* The likelihood engine on grid points (trace_model.get_trace_log_likelihood, *)
(* not in src/): a deterministic function of the trace and the parameter       *)
(* vector.  The surfaces considered have a main peak anywhere on the grid, a   *)
(* lower secondary peak at one of the grid's two extreme corners, and are flat *)
(* elsewhere; larger is better.                                                *)

GetTraceLogLikelihood(eng, trace, p) ==
    IF p = eng.peak[trace] THEN -1
    ELSE IF p = eng.corner THEN -2
    ELSE -3

DistinctTraces(ts) == {ts[t] : t \in 1..Len(ts)}

Engines(ts, pr) ==
    LET params == ToParameters(pr)
        size   == ArraySize(NumValues(pr))
    IN  IF size = 0 THEN {[peak |-> [tv \in DistinctTraces(ts) |-> <<>>], corner |-> <<>>]}
        ELSE {[peak |-> pk, corner |-> VectorAt(params, c)] :
                 pk \in [DistinctTraces(ts) -> GridVectors(pr)], c \in {1, size}}

-----------------------------------------------------------------------------
(* utils.find_local_maxima (not in src/), after spec section 4.4. *)

Radius == 1

\* the multi-index of every position of a C-order array of the given shape
Indices(shape) == Array([k \in 1..ArraySize(shape) |-> Unravel(k - 1, shape)])

\* the positions within Radius of position k along every axis
Window(k, idx) ==
    {q \in 1..Len(idx) : \A d \in 1..Len(idx[k]) : Abs(idx[q][d] - idx[k][d]) <= Radius}

\* no higher value in the window, and not on a plateau (unless the array is constant)
IsLocalMaximum(arr, k, idx) ==
    LET win == Window(k, idx)
        v   == arr.data[k]
    IN  /\ \A q \in win : arr.data[q] <= v
        /\ \/ \E q \in win : arr.data[q] # v
           \/ \A q \in 1..Len(idx) : arr.data[q] = v

\* the best of a non-empty set of positions: largest value, ties to the lowest position
BestIndex(arr, cands) ==
    CHOOSE k \in cands : \A q \in cands :
        \/ arr.data[q] < arr.data[k]
        \/ arr.data[q] = arr.data[k] /\ k <= q

RECURSIVE TopIndices(_, _, _)
TopIndices(arr, cands, num) ==
    IF num <= 0 \/ cands = {} THEN <<>>
    ELSE LET b == BestIndex(arr, cands)
         IN  <<b>> \o TopIndices(arr, cands \ {b}, num - 1)

\* exactly num multi-indices: the num highest local maxima, padded by repeating the best
FindLocalMaxima(arr, num) ==
    LET idx  == Indices(arr.shape)
        all  == 1..Len(idx)
        locs == {k \in all : IsLocalMaximum(arr, k, idx)}
        top  == TopIndices(arr, IF locs = {} THEN {BestIndex(arr, all)} ELSE locs, num)
    IN  Array([j \in 1..num |-> idx[IF j <= Len(top) THEN top[j] ELSE top[1]]])

-----------------------------------------------------------------------------
(* estimate.py: get_initial_parameter_guesses. *)

\* lines 195-203: the engine at every grid point, for every trace
GridLogLikelihoods(eng, ts, params, size) ==
    Array([t \in 1..Len(ts) |->
        Array([k \in 1..size |-> GetTraceLogLikelihood(eng, ts[t], VectorAt(params, k))])])

\* line 217: log_likelihoods[i].reshape(parameter_ranges.num_values())
TraceLogLikelihoods(lls, t, shape) == Reshape(lls[t], shape)

\* lines 192-236 for a non-empty grid: [guesses, min_indices, selected_ll], each (n, g)
GetInitialParameterGuesses(eng, ts, pr, hp) ==
    LET num_guesses == hp.num_guesses
        shape    == NumValues(pr)
        flat     == ToParameters(pr)
        lls      == GridLogLikelihoods(eng, ts, flat, ArraySize(shape))
        params   == Array([d \in 1..NumParams |-> Reshape(flat[d], shape)])
        found    == Array([t \in 1..Len(ts) |->
                        FindLocalMaxima(TraceLogLikelihoods(lls, t, shape), num_guesses)])
    IN  [guesses     |-> [t \in 1..Len(ts) |-> [j \in 1..num_guesses |->
                            [d \in 1..NumParams |-> Index(params[d], found[t][j])]]],
         min_indices |-> found,
         selected_ll |-> [t \in 1..Len(ts) |-> [j \in 1..num_guesses |->
                            Index(TraceLogLikelihoods(lls, t, shape), found[t][j])]]]

-----------------------------------------------------------------------------
(* estimate.py: is_done. *)

\* the entries of a (w, n, g) history, as one sequence
RECURSIVE FlatRows(_)
FlatRows(rows) == IF rows = <<>> THEN <<>> ELSE Head(rows) \o FlatRows(Tail(rows))

FlatHistory(h) == FlatRows([k \in 1..Len(h) |-> FlatRows(h[k])])

\* jnp.diff(history, axis=0): one batch per pair of consecutive batches
HistoryDiff(h) ==
    [k \in 1..(Len(h) - 1) |->
        [t \in 1..Len(h[k]) |-> [g \in 1..Len(h[k][t]) |-> h[k + 1][t][g] - h[k][t][g]]]]

\* jnp.abs(jnp.mean(a)) over all entries: NaN for an empty array, else <<|sum|, count>>
AbsMean(values) == IF values = <<>> THEN NaN ELSE <<Abs(SumSeq(values)), Len(values)>>

\* a / b in IEEE arithmetic for a, b >= 0 or NaN: 0/0 is NaN, x/0 is inf
Divide(a, b) ==
    IF a = NaN \/ b = NaN THEN NaN
    ELSE IF b[1] = 0 THEN (IF a[1] = 0 THEN NaN ELSE "inf")
    ELSE <<a[1] * b[2], a[2] * b[1]>>

\* lines 254-257: percent_improve = |mean(diff)| / |mean(history)|, one scalar
PercentImprove(h) == Divide(AbsMean(FlatHistory(HistoryDiff(h))), AbsMean(FlatHistory(h)))

\* lines 259-265 on a scalar ratio
Converged(ratio, limit) ==
    \/ ratio = NaN
    \/ ratio # NaN /\ ratio # "inf" /\ RatLess(ratio, limit)

\* is_done without its length check (lines 246-247 dropped)
IsDoneNoLengthCheck(h, hp) == Converged(PercentImprove(h), hp.is_done_limit)

\* is_done
IsDone(h, hp) ==
    IF Len(h) < hp.is_done_window THEN FALSE
    ELSE Converged(PercentImprove(h), hp.is_done_limit)

-----------------------------------------------------------------------------
(* estimate.py: estimate_parameters. *)

\* the values an optimizer step may report for an item
StepLogLikelihoods == {-2, -1}

\* optimizer.init(parameters) (optimizer module, not in src/): a fresh state
OptimizerInit(p) == [start |-> p.at, by |-> <<>>]

\* optimizer.step(trace, parameters, state) (not in src/): the new parameters and
\* state are deterministic functions of (trace, parameters, state), kept as terms:
\* the start point and the steps taken from it
\* (the objective is closed over y, line 138, so y is part of the term)
StepParameters(yy, trace, p, s) ==
    [at |-> p.at, by |-> Append(p.by, [trace |-> trace, y |-> yy])]

StepState(yy, trace, p, s) ==
    [start |-> s.start, by |-> Append(s.by, [trace |-> trace, y |-> yy])]

\* the distinct inputs (trace, parameters, state) of one batched step
StepInputs(ts, ps, ss) ==
    {<<ts[t], ps[t][g], ss[t][g]>> : t \in 1..Len(ts), g \in 1..Len(ps[1])}

\* collections.deque(maxlen).append(x)
DequeAppend(dq, x, maxlen) ==
    IF maxlen = 0 THEN <<>>
    ELSE IF Len(dq) >= maxlen THEN Append(Tail(dq), x)
    ELSE Append(dq, x)

\* jnp.argmin(row): the first position of the smallest value
ArgMin(row) ==
    CHOOSE g \in 1..Len(row) :
        /\ \A h \in 1..Len(row) : row[g] <= row[h]
        /\ \A h \in 1..(g - 1) : row[g] < row[h]

\* line 167: best_guesses = jnp.argmin(log_likelihoods, axis=1)
BestGuesses(lls) == [t \in 1..Len(lls) |-> ArgMin(lls[t])]

\* lines 169-172 with the two indices swapped: p[best_guesses[t], t]
BestParametersSwapped(ps, best) ==
    [t \in 1..Len(ps) |->
        ps[IF best[t] <= Len(ps) THEN best[t] ELSE Len(ps)]
          [IF t <= Len(ps[1]) THEN t ELSE Len(ps[1])]]

\* lines 169-172: p[t, best_guesses[t]] for every trace t
BestParameters(ps, best) == [t \in 1..Len(ps) |-> ps[t][best[t]]]

\* lines 173-175
BestLogLikelihoods(lls, best) == [t \in 1..Len(lls) |-> lls[t][best[t]]]

\* lines 130-132: the initial guesses (the grid is evaluated on the way)
InitialGuesses ==
    /\ pc = "start"
    /\ IF ToParametersRaises(parameter_ranges)
       THEN /\ pc' = "error"
            /\ error' = "ValueError"
            /\ UNCHANGED <<guessVars, parameters, work_done>>
       ELSE IF ArraySize(NumValues(parameter_ranges)) = 0
       THEN \* an empty grid: no likelihood is evaluated and no index can be returned
            /\ pc' = "error"
            /\ error' = "IndexError"
            /\ UNCHANGED <<guessVars, parameters, work_done>>
       ELSE \E eng \in Engines(traces, parameter_ranges) :
              LET r == GetInitialParameterGuesses(eng, traces, parameter_ranges,
                                                  hyper_parameters)
              IN  /\ engine' = eng
                  /\ min_indices' = r.min_indices
                  /\ selected_ll' = r.selected_ll
                  /\ parameters' = [t \in 1..Len(traces) |->
                        [g \in 1..hyper_parameters.num_guesses |->
                            [at |-> r.guesses[t][g], by |-> <<>>]]]
                  /\ work_done' = TRUE
                  /\ pc' = "optimizer"
                  /\ error' = error
    /\ UNCHANGED <<inVars, optimizer_states, log_likelihoods, log_likelihoods_history, i,
                   bestVars, yVars, done_result, fitVars>>

\* lines 137-153: the optimizer, its states and the empty history
CreateOptimizer ==
    /\ pc = "optimizer"
    /\ optimizer_states' = [t \in 1..Len(traces) |->
            [g \in 1..hyper_parameters.num_guesses |-> OptimizerInit(parameters[t][g])]]
    /\ log_likelihoods_history' = <<>>
    /\ i' = 0
    /\ pc' = "loop"
    /\ UNCHANGED <<error, inVars, guessVars, parameters, log_likelihoods, bestVars, yVars,
                   work_done, done_result, fitVars>>

\* lines 155-163: one iteration of the refinement loop
RefineStep ==
    /\ pc = "loop"
    /\ i < hyper_parameters.epoch_length
    /\ \E v \in [StepInputs(traces, parameters, optimizer_states) -> StepLogLikelihoods] :
         LET n   == Len(traces)
             g   == hyper_parameters.num_guesses
             lls == [t \in 1..n |-> [k \in 1..g |->
                        v[<<traces[t], parameters[t][k], optimizer_states[t][k]>>]]]
             h   == DequeAppend(log_likelihoods_history, lls,
                                hyper_parameters.is_done_window)
         IN  /\ parameters' = [t \in 1..n |-> [k \in 1..g |->
                    StepParameters(y, traces[t], parameters[t][k], optimizer_states[t][k])]]
             /\ optimizer_states' = [t \in 1..n |-> [k \in 1..g |->
                    StepState(y, traces[t], parameters[t][k], optimizer_states[t][k])]]
             /\ log_likelihoods' = lls
             /\ log_likelihoods_history' = h
             /\ i' = i + 1
             /\ pc' = IF IsDone(h, hyper_parameters) THEN "select" ELSE "loop"
    /\ work_done' = TRUE
    /\ UNCHANGED <<error, inVars, guessVars, bestVars, yVars, done_result, fitVars>>

\* line 155: the range is exhausted
LoopExhausted ==
    /\ pc = "loop"
    /\ i >= hyper_parameters.epoch_length
    /\ pc' = "select"
    /\ UNCHANGED <<error, inVars, guessVars, loopVars, bestVars, yVars, work_done,
                   done_result, fitVars>>

\* lines 167-179: keep, per trace, the selected restart and return
SelectBest ==
    /\ pc = "select"
    /\ IF i = 0
       THEN \* the loop body never ran: log_likelihoods is unbound at line 167
            /\ pc' = "error"
            /\ error' = "UnboundLocalError"
            /\ UNCHANGED bestVars
       ELSE LET best == BestGuesses(log_likelihoods)
            IN  /\ best_parameters' = BestParameters(parameters, best)
                /\ best_log_likelihoods' = BestLogLikelihoods(log_likelihoods, best)
                /\ pc' = "returned"
                /\ error' = error
    /\ UNCHANGED <<inVars, guessVars, loopVars, yVars, work_done, done_result, fitVars>>

EstimateParametersNext == InitialGuesses \/ CreateOptimizer \/ RefineStep \/ LoopExhausted \/ SelectBest

-----------------------------------------------------------------------------
(* Inputs. *)

TraceA == <<1, 2>>
TraceB == <<3, 1>>
TraceC == <<2, 5>>

\* (start, stop) per parameter, all well-formed; p_on is left to its defaults
RangeArgs ==
    <<<<Some(1), Some(5)>>, <<Some(5), Some(5)>>, <<Some(1), Some(3)>>, <<Some(1), Some(1)>>,
      <<Some(1), Some(3)>>, <<None, None>>, <<Some(1), Some(10000)>>>>

IsDoneLimits == {<<1, 4>>}

NoTable == <<>>

\* the variables estimate_y, is_done and optimize_params own, at rest
RestIdle ==
    /\ ypc = "none"
    /\ max_y = 0
    /\ all_parameters = NoTable
    /\ all_log_likelihoods = NoTable
    /\ max_likelihood_y = None
    /\ est_calls = <<>>
    /\ caller_max_x = None
    /\ hp_owner = "estimate_y"
    /\ calls = 0
    /\ done_result = None
    /\ fit_pc = "none"
    /\ likelihood = None
    /\ old_likelihood = None
    /\ diff = None

\* the locals of estimate_parameters before it runs
LocalsIdle ==
    /\ engine = None
    /\ min_indices = None
    /\ selected_ll = None
    /\ parameters = None
    /\ optimizer_states = None
    /\ log_likelihoods = None
    /\ log_likelihoods_history = <<>>
    /\ i = 0
    /\ best_parameters = None
    /\ best_log_likelihoods = None

\* a direct call estimate_parameters(traces, y, parameter_ranges, hyper_parameters)
Init ==
    /\ pc = "start"
    /\ error = "none"
    /\ traces \in {<<TraceA, TraceA>>, <<TraceA, TraceB>>}
    /\ y = 1
    /\ parameter_ranges \in
         {ParameterRangesInit(RangeArgs, <<MaxSteps, 1, 1, 1, 1, 1, 1>>)}
    /\ hyper_parameters \in
         [min_y : {1}, max_x : {Some(5)}, num_guesses : {1, 2},
          epoch_length : 0..MaxEpochLength, is_done_window : 0..MaxWindow,
          is_done_limit : IsDoneLimits]
    /\ work_done = FALSE
    /\ LocalsIdle
    /\ RestIdle

Next == EstimateParametersNext

Spec == Init /\ [][Next]_vars

\* estimate_y's inputs: batches of one and of two traces
YTraceBatches == {<<TraceC>>, <<TraceA, TraceB>>}

\* a one-point grid, and the same with r_e's start above its stop, with no
\* r_e value at all and with a negative number of r_e values
YRanges ==
    { ParameterRangesInit(RangeArgs, <<1, 1, 1, 1, 1, 1, 1>>),
      ParameterRangesInit([RangeArgs EXCEPT ![1] = <<Some(5), Some(1)>>], <<1, 1, 1, 1, 1, 1, 1>>),
      ParameterRangesInit(RangeArgs, <<0, 1, 1, 1, 1, 1, 1>>),
      ParameterRangesInit(RangeArgs, <<-1, 1, 1, 1, 1, 1, 1>>) }

\* HyperParameters objects a caller makes: max_x set or left unset
YHyperParameters ==
    [min_y : 1..2, max_x : {None, Some(4)}, num_guesses : {1}, epoch_length : {1},
     is_done_window : {1}, is_done_limit : IsDoneLimits]

-----------------------------------------------------------------------------
(* estimate.py: estimate_y. *)

\* range(min_y, max_y), the last candidate missing
YRangeExclusive(min_y, maxy) == [k \in 1..(maxy - min_y) |-> min_y + k - 1]

\* line 67: range(hyper_parameters.min_y, max_y + 1), in order
YRange(min_y, maxy) == [k \in 1..(maxy + 1 - min_y) |-> min_y + k - 1]

\* HyperParameters() (hyper_parameters module, not in src/): max_x is unset
DefaultHyperParameters ==
    [min_y |-> 1, max_x |-> None, num_guesses |-> 1, epoch_length |-> 1,
     is_done_window |-> 2, is_done_limit |-> <<1, 4>>]

\* post_process.post_process (not in src/): some choice of y per trace
FindMostLikelyY(ts, ps, lls, hp) ==
    Some([selector |-> "post_process", traces |-> Len(ts), rows |-> Len(lls)])

\* lines 60-61: max_x is derived from the traces only if it is None
WithMaxX(hp, ts) == IF hp.max_x = None THEN [hp EXCEPT !.max_x = Some(TracesMax(ts))] ELSE hp

\* lines 18-66: estimate_y(ts, maxy, pr, hp) is entered.  hp is the object the
\* caller passes; line 61 writes to that object
EnterEstimateY(ts, maxy, pr, hp, set_by_caller, owner) ==
    /\ calls' = calls + 1
    /\ hp_owner' = owner
    /\ traces' = ts
    /\ max_y' = maxy
    /\ parameter_ranges' = pr
    /\ hyper_parameters' = WithMaxX(hp, ts)
    /\ caller_max_x' = set_by_caller
    /\ all_parameters' = <<>>
    /\ all_log_likelihoods' = <<>>
    /\ max_likelihood_y' = None
    /\ est_calls' = <<>>
    /\ work_done' = FALSE
    /\ ypc' = "loop"
    /\ pc' = "idle"
    /\ error' = "none"
    /\ UNCHANGED <<y, guessVars, loopVars, bestVars, done_result, fitVars>>

YIdle == ypc \in {"idle", "returned", "error"} /\ calls < MaxCalls

\* estimate_y(traces, max_y, parameter_ranges): hyper_parameters is None (line 55)
CallEstimateYDefault ==
    /\ YIdle
    /\ \E ts \in YTraceBatches, maxy \in 0..MaxY, pr \in YRanges :
          EnterEstimateY(ts, maxy, pr, DefaultHyperParameters, None, "estimate_y")

\* estimate_y(..., hyper_parameters = a HyperParameters object made for this call)
CallEstimateYNew ==
    /\ YIdle
    /\ \E ts \in YTraceBatches, maxy \in 0..MaxY, pr \in YRanges, hp \in YHyperParameters :
          EnterEstimateY(ts, maxy, pr, hp, hp.max_x, "caller")

\* estimate_y(..., hyper_parameters = the object passed to the call before)
CallEstimateYSame ==
    /\ YIdle
    /\ calls >= 1
    /\ hp_owner = "caller"
    /\ \E ts \in YTraceBatches, maxy \in 0..MaxY, pr \in YRanges :
          EnterEstimateY(ts, maxy, pr, hyper_parameters, caller_max_x, "caller")

\* lines 67-70: the next candidate y, and the call of estimate_parameters
YLoopCall ==
    /\ ypc = "loop"
    /\ LET ys == YRange(hyper_parameters.min_y, max_y)
           k  == Len(est_calls) + 1
       IN  /\ k <= Len(ys)
           /\ y' = ys[k]
           /\ est_calls' = Append(est_calls,
                [y |-> ys[k], max_x |-> hyper_parameters.max_x,
                 parameters |-> None, log_likelihoods |-> None])
    /\ ypc' = "in_call"
    /\ pc' = "start"
    /\ engine' = None
    /\ min_indices' = None
    /\ selected_ll' = None
    /\ parameters' = None
    /\ optimizer_states' = None
    /\ log_likelihoods' = None
    /\ log_likelihoods_history' = <<>>
    /\ i' = 0
    /\ best_parameters' = None
    /\ best_log_likelihoods' = None
    /\ UNCHANGED <<error, traces, parameter_ranges, hyper_parameters, max_y, all_parameters,
                   all_log_likelihoods, max_likelihood_y, caller_max_x, hp_owner, calls,
                   work_done, done_result, fitVars>>

\* lines 68-73: estimate_parameters returned; its results are appended
YLoopReturn ==
    /\ ypc = "in_call"
    /\ pc = "returned"
    /\ all_parameters' = Append(all_parameters, best_parameters)
    /\ all_log_likelihoods' = Append(all_log_likelihoods, best_log_likelihoods)
    /\ est_calls' = [est_calls EXCEPT ![Len(est_calls)] =
            [@ EXCEPT !.parameters = best_parameters,
                      !.log_likelihoods = best_log_likelihoods]]
    /\ ypc' = "loop"
    /\ pc' = "idle"
    /\ UNCHANGED <<error, inVars, guessVars, loopVars, bestVars, max_y, max_likelihood_y,
                   caller_max_x, hp_owner, calls, work_done, done_result, fitVars>>

\* an exception of estimate_parameters is not caught: estimate_y ends with it
YLoopRaise ==
    /\ ypc = "in_call"
    /\ pc = "error"
    /\ ypc' = "error"
    /\ pc' = "idle"
    /\ UNCHANGED <<error, inVars, guessVars, loopVars, bestVars, max_y, all_parameters,
                   all_log_likelihoods, max_likelihood_y, est_calls, caller_max_x, hp_owner,
                   calls, work_done, done_result, fitVars>>

\* lines 75-82: the loop is over; the selector is called and estimate_y returns
PostProcess ==
    /\ ypc = "loop"
    /\ Len(est_calls) >= Len(YRange(hyper_parameters.min_y, max_y))
    /\ max_likelihood_y' = FindMostLikelyY(traces, all_parameters, all_log_likelihoods,
                                           hyper_parameters)
    /\ ypc' = "returned"
    /\ UNCHANGED <<pc, error, inVars, guessVars, loopVars, bestVars, max_y, all_parameters,
                   all_log_likelihoods, est_calls, caller_max_x, hp_owner, calls,
                   work_done, done_result, fitVars>>

\* no call of estimate_y made yet
InitEstimateY ==
    /\ pc = "idle"
    /\ error = "none"
    /\ traces = <<>>
    /\ y = 0
    /\ parameter_ranges = ParameterRangesInit(RangeArgs, <<1, 1, 1, 1, 1, 1, 1>>)
    /\ hyper_parameters = DefaultHyperParameters
    /\ work_done = FALSE
    /\ LocalsIdle
    /\ ypc = "idle"
    /\ max_y = 0
    /\ all_parameters = NoTable
    /\ all_log_likelihoods = NoTable
    /\ max_likelihood_y = None
    /\ est_calls = <<>>
    /\ caller_max_x = None
    /\ hp_owner = "estimate_y"
    /\ calls = 0
    /\ done_result = None
    /\ fit_pc = "none"
    /\ likelihood = None
    /\ old_likelihood = None
    /\ diff = None

EstimateYNext ==
    \/ CallEstimateYDefault \/ CallEstimateYNew \/ CallEstimateYSame
    \/ YLoopCall \/ YLoopReturn \/ YLoopRaise \/ PostProcess
    \/ EstimateParametersNext

SpecEstimateY == InitEstimateY /\ [][EstimateYNext]_vars

-----------------------------------------------------------------------------
(* get_initial_parameter_guesses alone, over grids of several shapes. *)

GuessRangeArgs ==
    <<<<Some(1), Some(5)>>, <<Some(2), Some(4)>>, <<Some(1), Some(3)>>, <<Some(1), Some(1)>>,
      <<Some(1), Some(3)>>, <<None, None>>, <<Some(1), Some(10000)>>>>

GuessRanges ==
    {ParameterRangesInit(GuessRangeArgs, <<s1, s2, 1, 1, 1, s3, 1>>) :
        s1 \in 1..MaxSteps, s2 \in 1..2, s3 \in 1..2}

InitGuesses ==
    /\ pc = "start"
    /\ error = "none"
    /\ traces \in {<<TraceA, TraceA>>, <<TraceA, TraceB>>}
    /\ y = 1
    /\ parameter_ranges \in GuessRanges
    /\ hyper_parameters \in
         [min_y : {1}, max_x : {Some(5)}, num_guesses : 1..2, epoch_length : {1},
          is_done_window : {1}, is_done_limit : IsDoneLimits]
    /\ work_done = FALSE
    /\ LocalsIdle
    /\ RestIdle

SpecGuesses == InitGuesses /\ [][InitialGuesses]_vars

-----------------------------------------------------------------------------
(* is_done alone, on histories of batches of shape (1, 2). *)

IsDoneValues == {-1, 0, 1}

IsDoneBatches == {<<<<a, b>>>> : a, b \in IsDoneValues}

IsDoneHistories == UNION {[1..len -> IsDoneBatches] : len \in 0..(MaxWindow + 1)}

InitIsDone ==
    /\ pc = "idle"
    /\ error = "none"
    /\ traces = <<>>
    /\ y = 0
    /\ parameter_ranges = ParameterRangesInit(RangeArgs, <<1, 1, 1, 1, 1, 1, 1>>)
    /\ hyper_parameters \in
         [min_y : {1}, max_x : {None}, num_guesses : {2}, epoch_length : {1},
          is_done_window : 0..(MaxWindow + 1), is_done_limit : IsDoneLimits]
    /\ work_done = FALSE
    /\ engine = None
    /\ min_indices = None
    /\ selected_ll = None
    /\ parameters = None
    /\ optimizer_states = None
    /\ log_likelihoods = None
    /\ log_likelihoods_history \in IsDoneHistories
    /\ i = 0
    /\ best_parameters = None
    /\ best_log_likelihoods = None
    /\ RestIdle

\* is_done(log_likelihoods_history, hyper_parameters)
CallIsDone ==
    /\ done_result = None
    /\ done_result' = Some(IsDone(log_likelihoods_history, hyper_parameters))
    /\ UNCHANGED <<pc, error, inVars, guessVars, loopVars, bestVars, yVars, work_done, fitVars>>

SpecIsDone == InitIsDone /\ [][CallIsDone]_vars

-----------------------------------------------------------------------------
(* fit.py: optimize_params.  Likelihoods and their differences are in units *)
(* of 1e-4, the tolerance of the loop's test.                               *)

FitTolerance == 1           \* 1e-4
FitOldLikelihood == 10000   \* old_likelihood = 1
FitDiff == 100000           \* diff = 10

MaxFitLikelihood == 11      \* the objective's values are 0..MaxFitLikelihood

\* lines 62-63: the state before the loop
InitFit ==
    /\ fit_pc = "loop"
    /\ likelihood = None
    /\ old_likelihood = Some(FitOldLikelihood)
    /\ diff = Some(FitDiff)
    /\ pc = "idle"
    /\ error = "none"
    /\ traces = <<TraceA>>
    /\ y \in 1..MaxY
    /\ parameter_ranges = ParameterRangesInit(RangeArgs, <<1, 1, 1, 1, 1, 1, 1>>)
    /\ hyper_parameters = DefaultHyperParameters
    /\ work_done = FALSE
    /\ LocalsIdle
    /\ ypc = "none"
    /\ max_y = 0
    /\ all_parameters = NoTable
    /\ all_log_likelihoods = NoTable
    /\ max_likelihood_y = None
    /\ est_calls = <<>>
    /\ caller_max_x = None
    /\ hp_owner = "estimate_y"
    /\ calls = 0
    /\ done_result = None

\* lines 65-85: one pass of the while loop; the objective's value is whatever the
\* updated parameters give
FitStep ==
    /\ fit_pc = "loop"
    /\ diff[1] > FitTolerance
    /\ \E v \in 0..MaxFitLikelihood :
        /\ likelihood' = Some(v)
        /\ diff' = Some(Abs(v - old_likelihood[1]))
        /\ old_likelihood' = Some(v)
    /\ UNCHANGED <<fit_pc, pc, error, inVars, guessVars, loopVars, bestVars, yVars,
                   work_done, done_result>>

\* lines 65 and 87: the loop's test fails and the function returns
FitReturn ==
    /\ fit_pc = "loop"
    /\ ~(diff[1] > FitTolerance)
    /\ fit_pc' = "done"
    /\ UNCHANGED <<likelihood, old_likelihood, diff, pc, error, inVars, guessVars, loopVars,
                   bestVars, yVars, work_done, done_result>>

FitNext == FitStep \/ FitReturn

\* the interpreter keeps running the loop: a pass that can be taken is taken
SpecFit == InitFit /\ [][FitNext]_vars /\ WF_vars(FitNext)

-----------------------------------------------------------------------------
(* Claims about estimate_parameters, checked under Spec. *)

Running == pc \in {"loop", "select", "returned"}

RowMax(row) == CHOOSE v \in {row[g] : g \in 1..Len(row)} : \A g \in 1..Len(row) : row[g] <= v

\* C1: when estimate_parameters returns, every trace's returned log-likelihood is
\* the maximum over its restarts of the last iteration's log-likelihoods, and its
\* returned parameters are those of a restart that attains this maximum.
C1_ReturnsMaximum ==
    pc = "returned" =>
        \A t \in 1..Len(traces) :
            /\ best_log_likelihoods[t] = RowMax(log_likelihoods[t])
            /\ \E g \in 1..hyper_parameters.num_guesses :
                /\ log_likelihoods[t][g] = RowMax(log_likelihoods[t])
                /\ best_parameters[t] = parameters[t][g]

\* the window's history of one (trace, restart) item, as a history of its own
ItemHistory(h, t, g) == [k \in 1..Len(h) |-> <<<<h[k][t][g]>>>>]

ItemConverged(h, t, g, hp) == Converged(PercentImprove(ItemHistory(h, t, g)), hp.is_done_limit)

\* C3: whenever is_done is True on a full window, every (trace, restart) item's
\* own history in that window satisfies the convergence criterion.
C3_DoneMeansEveryItemConverged ==
    ( /\ Running
      /\ i >= 1
      /\ Len(log_likelihoods_history) = hyper_parameters.is_done_window
      /\ IsDone(log_likelihoods_history, hyper_parameters) )
    => \A t \in 1..Len(traces) : \A g \in 1..hyper_parameters.num_guesses :
          ItemConverged(log_likelihoods_history, t, g, hyper_parameters)

\* C8: identical traces of one batch get identical best parameters and an
\* identical best log-likelihood.
C8_ReplicasAgree ==
    pc = "returned" =>
        \A t1, t2 \in 1..Len(traces) :
            traces[t1] = traces[t2] =>
                /\ best_parameters[t1] = best_parameters[t2]
                /\ best_log_likelihoods[t1] = best_log_likelihoods[t2]

\* a batch of two replicas whose restarts started from different guesses and
\* reported different log-likelihoods, refined for two steps or more
C8_Witness ==
    /\ pc = "returned"
    /\ traces[1] = traces[2]
    /\ hyper_parameters.num_guesses = 2
    /\ parameters[1][1] # parameters[1][2]
    /\ log_likelihoods[1][1] # log_likelihoods[1][2]
    /\ i >= 2

C9_State ==
    (hyper_parameters.epoch_length >= 1 /\ Running) =>
        /\ i <= hyper_parameters.epoch_length
        /\ Len(log_likelihoods_history) = Min2(i, hyper_parameters.is_done_window)
        /\ \A t \in 1..Len(traces) : \A g \in 1..hyper_parameters.num_guesses :
              /\ Len(parameters[t][g].by) = i
              /\ Len(optimizer_states[t][g].by) = i
        /\ (pc = "loop" /\ i >= 1) => ~IsDone(log_likelihoods_history, hyper_parameters)
        /\ pc # "loop" =>
              /\ i >= 1
              /\ i < hyper_parameters.epoch_length =>
                    /\ i >= hyper_parameters.is_done_window
                    /\ IsDone(log_likelihoods_history, hyper_parameters)

C9_Step ==
    (pc = "loop" /\ i' = i + 1) =>
        LET all == Append(log_likelihoods_history, log_likelihoods')
            w   == hyper_parameters.is_done_window
        IN  log_likelihoods_history' =
                SubSeq(all, Len(all) - Min2(Len(all), w) + 1, Len(all))

\* C9: for epoch_length >= 1 the loop does between 1 and epoch_length steps, every
\* item advancing at each step; the window holds the batches of the last min(i, W)
\* steps; the loop goes on while is_done is False and, when it ends before
\* epoch_length steps, it does so at the first step after which is_done is True,
\* which is never before W steps.
C9_LoopAndWindow == [](C9_State) /\ [][C9_Step]_vars

\* stopped by is_done as soon as the window was full, with steps to spare
C9_Witness ==
    /\ pc = "select"
    /\ hyper_parameters.is_done_window = 2
    /\ i = 2
    /\ i < hyper_parameters.epoch_length

-----------------------------------------------------------------------------
(* Claims about estimate_y, checked under SpecEstimateY. *)

Malformed(pr) ==
    \E d \in 1..NumParams : pr[d].start > pr[d].stop \/ pr[d].step <= 0

\* C6: a call with a malformed range (start > stop, or a step count <= 0) and
\* at least one candidate y ends in an error, without any likelihood evaluation or
\* optimizer step.
C6_MalformedRangeIsRejected ==
    (ypc # "idle" /\ Malformed(parameter_ranges) /\ hyper_parameters.min_y <= max_y) =>
        /\ ~work_done
        /\ ypc # "returned"

\* C7: in every call whose caller did not set max_x, the max_x in use is the
\* maximum intensity of that call's traces.
C7_MaxXIsOfThisCall ==
    (ypc \in {"loop", "in_call", "returned"} /\ caller_max_x = None) =>
        /\ hyper_parameters.max_x = Some(TracesMax(traces))
        /\ \A k \in 1..Len(est_calls) : est_calls[k].max_x = Some(TracesMax(traces))

-----------------------------------------------------------------------------
(* Claims about get_initial_parameter_guesses, checked under SpecGuesses. *)

\* C5: every trace gets exactly num_guesses vectors; each vector's components are
\* all read at the one grid index find_local_maxima returned for it, so component
\* d is value m[d] of parameter d's linspace; the likelihood it was selected for is
\* the engine's value at that very vector; and every component lies in [min, max].
C5_GuessesAreGridPoints ==
    pc = "optimizer" =>
        \A t \in 1..Len(traces) :
            /\ Len(parameters[t]) = hyper_parameters.num_guesses
            /\ \A j \in 1..hyper_parameters.num_guesses :
                LET m == min_indices[t][j]
                    p == parameters[t][j].at
                IN  /\ Len(p) = NumParams
                    /\ selected_ll[t][j] = GetTraceLogLikelihood(engine, traces[t], p)
                    /\ \A d \in 1..NumParams :
                        /\ m[d] \in 0..(parameter_ranges[d].step - 1)
                        /\ p[d] = ToTensor(parameter_ranges[d])[m[d] + 1]
                        /\ RatLeq(<<parameter_ranges[d].start, 1>>, p[d])
                        /\ RatLeq(p[d], <<parameter_ranges[d].stop, 1>>)

\* two different guesses for one trace on a grid whose first two axes differ in
\* length, one of them away from the origin along three axes
C5_Witness ==
    /\ pc = "optimizer"
    /\ hyper_parameters.num_guesses = 2
    /\ parameter_ranges[1].step # parameter_ranges[2].step
    /\ min_indices[1][1] # min_indices[1][2]
    /\ min_indices[1][1][1] > 0
    /\ min_indices[1][1][2] > 0
    /\ min_indices[1][1][6] > 0

-----------------------------------------------------------------------------
(* Claims about is_done, checked under SpecIsDone. *)

AbsSeq(values) == [k \in 1..Len(values) |-> Abs(values[k])]

\* the mean of the absolute values: NaN for an empty array, else <<sum, count>>
MeanAbs(values) == IF values = <<>> THEN NaN ELSE <<SumSeq(AbsSeq(values)), Len(values)>>

\* (mean absolute step-to-step change) / (mean absolute value of the history)
ClaimedRatio(h) == Divide(MeanAbs(FlatHistory(HistoryDiff(h))), MeanAbs(FlatHistory(h)))

\* C4: on a history of exactly is_done_window batches, is_done is True if and only
\* if (mean absolute change) / (mean absolute value) is below is_done_limit or NaN.
C4_DoneIffRatioSmall ==
    (done_result # None /\ Len(log_likelihoods_history) = hyper_parameters.is_done_window) =>
        (done_result[1] <=> Converged(ClaimedRatio(log_likelihoods_history),
                                      hyper_parameters.is_done_limit))

-----------------------------------------------------------------------------
(* Claims about optimize_params, checked under SpecFit. *)

\* C10: optimize_params always terminates.
C10_Terminates == <>(fit_pc = "done")

====
